---- MODULE Spec2Model ----
(***************************************************************************)
(* A model of gap_mcp/gap_runner.py: the GAPRunner session manager, its    *)
(* reader threads, the GAP subprocess it drives over pipes, and the        *)
(* threads that call execute, reset and close on one manager.              *)
(*                                                                         *)
(* Text is a sequence of tokens (a token stands for a run of characters;   *)
(* "\n" and " " are the whitespace tokens), so that substring tests,       *)
(* strip, rstrip and join are computed and not assumed.                    *)
(*                                                                         *)
(* Time is abstract in Spec: a blocking get or wait times out only when    *)
(* nothing can arrive without time passing (the process is stalled, or it  *)
(* has nothing left to read and nothing is left in its pipe).  SpecTimed   *)
(* counts ticks instead.                                                   *)
(***************************************************************************)
EXTENDS Integers, Sequences, FiniteSets, TLC

\* ------------------------------------------------------------------ bounds
\* tokens in a command given to the filter in SpecFilter
MaxLen == 3

\* operations (execute, reset, close) invoked in one behaviour
MaxOps == 2
\* stalls and crashes of the subprocess in one behaviour
MaxFaults == 2

Callers == {1, 2}

\* ------------------------------------------------------------- constants
SENTINEL == <<"__GAPDONE__">>

SENTINEL_CMD == <<"Print(\"">> \o SENTINEL \o <<"\\n", "\");", "\n">>

QUIT_CMD == <<"QUIT", ";", "\n">>

ERROR_PATTERNS ==
  << <<"Error,">>,
     <<"Syntax", "error:">>,
     <<"Variable:", "'">>,
     <<"no", "method", "found">>,
     <<"user", "interrupt">> >>

\* The deny-list without its lower-case quit entry.
BLOCKED_PATTERNS_CaseSensitiveQuit ==
  << <<"QUIT">>, <<"Exec", "(">>, <<"Process", "(">>, <<"IO_">>,
     <<"Filename", "(">> >>

BLOCKED_PATTERNS ==
  << <<"QUIT">>, <<"quit">>, <<"Exec", "(">>, <<"Process", "(">>, <<"IO_">>,
     <<"Filename", "(">> >>

DEFAULT_TIMEOUT == 60

STARTUP_TIMEOUT == 30

\* Optional[...]: None, or a value
None == [some |-> FALSE, val |-> <<>>]

Some(x) == [some |-> TRUE, val |-> x]

\* --------------------------------------------------------- text helpers
Whitespace == {" ", "\n"}

Min(S) == CHOOSE x \in S : \A y \in S : x <= y

Max(S) == CHOOSE x \in S : \A y \in S : x >= y

\* pattern in text
Contains(text, pat) ==
  \E i \in 1..(Len(text) - Len(pat) + 1) :
    SubSeq(text, i, i + Len(pat) - 1) = pat

\* str.strip()
Strip(s) ==
  LET idx == {i \in 1..Len(s) : s[i] \notin Whitespace}
  IN  IF idx = {} THEN <<>> ELSE SubSeq(s, Min(idx), Max(idx))

\* str.rstrip("\n")
RStripNL(s) ==
  LET idx == {i \in 1..Len(s) : s[i] # "\n"}
  IN  IF idx = {} THEN <<>> ELSE SubSeq(s, 1, Max(idx))

\* "\n".join(lines)
RECURSIVE Join(_)
Join(ls) ==
  IF ls = <<>> THEN <<>>
  ELSE IF Len(ls) = 1 THEN ls[1]
  ELSE ls[1] \o <<"\n">> \o Join(Tail(ls))

\* ------------------------------------------------------------ the filter
\* A filter that returns the last pattern of the list found in the code.
contains_blocked_last(code) ==
  LET hits == {i \in 1..Len(BLOCKED_PATTERNS) :
                 Contains(code, BLOCKED_PATTERNS[i])}
  IN  IF hits = {} THEN None ELSE Some(BLOCKED_PATTERNS[Max(hits)])

contains_blocked(code) ==
  LET hits == {i \in 1..Len(BLOCKED_PATTERNS) :
                 Contains(code, BLOCKED_PATTERNS[i])}
  IN  IF hits = {} THEN None ELSE Some(BLOCKED_PATTERNS[Min(hits)])

\* --------------------------------------------------------- result shapes
Result(s, o, e) == [success |-> s, output |-> o, error |-> e]

BlockedResult(pat) ==
  Result(FALSE, <<>>,
         Some(<<"Blocked", "pattern", "'">> \o pat
              \o <<"'", "found in code.",
                   "Use gap_reset() to restart the session instead of QUIT.">>))

TimeoutMessage(t) ==
  <<"GAP", "did not respond", "within", ToString(t), "s.",
    "The computation may be too large; try gap_reset() and use a smaller input, or increase the timeout parameter.">>

TerminatedMessage == <<"GAP process terminated unexpectedly.">>

ResetResult == Result(TRUE, <<"GAP session reset.">>, None)

\* An error scan that looks at stdout only.
has_error_stdout(stdout, stderr) ==
  IF \E i \in 1..Len(ERROR_PATTERNS) : Contains(stdout, ERROR_PATTERNS[i])
  THEN Some(Strip(stdout))
  ELSE None

\* _has_error(stdout, stderr)
has_error(stdout, stderr) ==
  LET combined == stdout \o <<"\n">> \o stderr
  IN  IF \E i \in 1..Len(ERROR_PATTERNS) : Contains(combined, ERROR_PATTERNS[i])
      THEN Some(Strip(combined))
      ELSE None

\* A success flag that ignores the error.
SuccessFlagAlways(error) == TRUE

\* execute, lines 262-266: "success": error is None
SuccessFlag(error) == ~error.some

\* A result whose output is the joined lines as they are.
SentinelResultUnstripped(lines, stderr) ==
  LET output == Join(lines)
      error  == has_error(output, stderr)
  IN  Result(SuccessFlag(error), output, error)

\* execute, lines 258-266
SentinelResult(lines, stderr) ==
  LET output == Strip(Join(lines))
      error  == has_error(output, stderr)
  IN  Result(SuccessFlag(error), output, error)

\* ------------------------------------------------- the GAP subprocess
\* Commands the callers issue.  CmdLoop ends in whitespace that execute strips.
CmdArith == <<"2 + 2;">>

CmdLoop ==
  <<"for i in [1..2] do", "\n", "Print(i, \"\\n\");", "\n", "od;", "\n">>

CmdBad == <<"NotAFunction();">>

CmdFail == <<"Error(\"boom\");">>

\* CmdArith is issued in SpecTimed only.
AcceptedCommands == {CmdLoop, CmdBad, CmdFail}

\* Commands on the session's variables (test_session_state_persists,
\* test_reset_clears_state), and one command of two statements, the first
\* failing on stdout and the second on stderr.  SpecSession issues them.
CmdDef == <<"myVar := 42;">>

CmdUse == <<"IsBound(myVar);">>

CmdBoth == CmdBad \o <<"\n">> \o CmdFail

SessionCommands == {CmdDef, CmdUse, CmdBoth}

\* Commands chosen for the text they exchange: the empty command, a command
\* whose output begins with an empty line, and the loop of
\* test_allows_multiline, whose output does not end with a newline.
\* SpecText issues them, with one command that prints on stderr and one that
\* the filter rejects.
CmdEmpty == <<>>

CmdBlank == <<"Print(\"\\n\", 4, \"\\n\");">>

CmdPrint == <<"for i in [1..2] do", "\n", "Print(i);", "\n", "od;">>

CmdQuit == <<"Order(G);", " ", "QUIT", ";">>

TextCommands == {CmdEmpty, CmdBlank, CmdPrint, CmdFail, CmdQuit}

\* One command for each dangerous GAP construct.
Dangerous ==
  { <<"QUIT">>, <<"quit">>, <<"Exec", "(">>, <<"Process", "(">>, <<"IO_">>,
    <<"Filename", "(">> }

BlockedCommands == {<<"Order(G);", " ">> \o d \o <<";">> : d \in Dangerous}

Commands == AcceptedCommands \cup BlockedCommands

\* the per-call timeout argument of execute: 0 stands for None (the code
\* reads it with "timeout or self.default_timeout", which treats both alike).
\* Spec, where time is abstract, passes one value; SpecTimed passes both.
TimeoutArgs == {1}

TimedTimeoutArgs == {0, 3}

\* What GAP prints on stdout for one statement (tests/test_gap_runner.py).
GAPOutput(stmt) ==
  CASE stmt = Strip(CmdArith) -> <<"4", "\n">>
    [] stmt = Strip(CmdLoop)  -> <<"1", "\n", "2", "\n">>
    [] stmt = Strip(CmdBlank) -> <<"\n", "4", "\n">>
    [] stmt = Strip(CmdPrint) -> <<"12">>
    [] stmt \in {Strip(CmdBad), Strip(CmdBoth)} ->
         <<"Error,", "Variable:", "'", "NotAFunction", "'",
           "must have a value", "\n">>
    [] OTHER -> <<>>

\* What GAP prints on stderr for one statement.
GAPErrOutput(stmt) ==
  IF stmt \in {Strip(CmdFail), Strip(CmdBoth)}
  THEN <<"Error,", "boom", "\n">>
  ELSE <<>>

\* The variables a statement binds in the session that runs it.
GAPBinds(stmt) == IF stmt = Strip(CmdDef) THEN {"myVar"} ELSE {}

\* What GAP prints on stdout for one statement in a session where the
\* variables of bound are bound.
GAPOutputIn(bound, stmt) ==
  IF stmt = Strip(CmdUse)
  THEN (IF "myVar" \in bound THEN <<"true", "\n">> ELSE <<"false", "\n">>)
  ELSE GAPOutput(stmt)

\* A statement that makes GAP exit.
IsQuit(chunk) == Contains(chunk, <<"QUIT">>) \/ Contains(chunk, <<"quit">>)

\* A process as Popen leaves it, its two reader threads started and the
\* handshake's sentinel command written (_start, lines 108-134).
NewProcess(oq, eq) ==
  [st |-> "run", stdin |-> <<SENTINEL_CMD>>, out |-> <<>>, err |-> <<>>,
   outTo |-> oq, errTo |-> eq, outRd |-> "run", errRd |-> "run",
   ready |-> FALSE, todo |-> <<>>, bound |-> {}]

\* ------------------------------------------------------------------ state
VARIABLES
  proc,      \* self._process: 0 (None) or the generation of the Popen object
  outQ,      \* self._stdout_queue: the identity of the queue object
  errQ,      \* self._stderr_queue
  lock,      \* self._lock: 0 (free) or the caller holding it
  eng,       \* generation -> the subprocess, its pipes and its two readers
  outStore,  \* queue identity -> the items of that stdout queue; a queue
             \* object that no reference of the manager reaches is dropped
  errStore,  \* queue identity -> the items of that stderr queue
  nextGen,   \* the generation the next Popen creates
  pc,        \* caller -> where it is in execute, reset or close
  call,      \* caller -> the call it is in
  lines,     \* caller -> the local "lines" of _send_sentinel
  nops,      \* operations invoked so far
  faults,    \* stalls and crashes so far
  ret,       \* the call that ended in the last step (kind "none": no call did)
  runner,    \* the module's _runner: 0 (None) or the instance
  runnerLock,\* _runner_lock: 0 (free) or the thread holding it
  gpc,       \* thread -> where it is in get_runner
  got,       \* thread -> what its last get_runner returned (0: nothing yet)
  built      \* GAPRunner instances constructed by get_runner so far

\* the state of get_runner
svars == <<runner, runnerLock, gpc, got, built>>

\* the state of one manager
mvars ==
  <<proc, outQ, errQ, lock, eng, outStore, errStore, nextGen, pc, call, lines,
    nops, faults, ret>>

vars ==
  <<proc, outQ, errQ, lock, eng, outStore, errStore, nextGen, pc, call, lines,
    nops, faults, ret, runner, runnerLock, gpc, got, built>>

\* the threads that call get_runner
Threads == {1, 2, 3}

NoCall ==
  [op |-> "none", cmd |-> <<>>, tmo |-> 0, ctx |-> "", g |-> 0,
   timedOut |-> FALSE, spawned |-> 0, stale |-> FALSE, idle |-> 0,
   waited |-> 0]

NoResult == Result(TRUE, <<>>, None)

NoRet ==
  [caller |-> 0, kind |-> "none", exc |-> "", res |-> NoResult,
   call |-> NoCall, lines |-> <<>>]

EofItem(g) == [g |-> g, eof |-> TRUE, v |-> <<>>]

LineItem(g, v) == [g |-> g, eof |-> FALSE, v |-> v]

\* timeout or self.default_timeout
EffectiveTimeout(tmo) == IF tmo = 0 THEN DEFAULT_TIMEOUT ELSE tmo

Init ==
  /\ proc = 1
  /\ outQ = 1
  /\ errQ = 1
  /\ lock = 0
  /\ eng = (1 :> [NewProcess(1, 1) EXCEPT !.stdin = <<>>, !.ready = TRUE])
  /\ outStore = (1 :> <<>>)
  /\ errStore = (1 :> <<>>)
  /\ nextGen = 2
  /\ pc = [t \in Callers |-> "idle"]
  /\ call = [t \in Callers |-> NoCall]
  /\ lines = [t \in Callers |-> <<>>]
  /\ nops = 0
  /\ faults = 0
  /\ ret = NoRet
  /\ runner = 0
  /\ runnerLock = 0
  /\ gpc = [t \in Threads |-> "idle"]
  /\ got = [t \in Threads |-> 0]
  /\ built = 0

\* ------------------------------------------------- subprocess and readers
\* self._process is not None and self._process.poll() is None
Alive(e, g) == g # 0 /\ e[g].st # "exited"

\* GAP reads the next chunk of its stdin and runs it.
GapStep(g) ==
  /\ eng[g].st = "run"
  /\ eng[g].stdin # <<>>
  /\ LET chunk == Head(eng[g].stdin)
         rest  == Tail(eng[g].stdin)
     IN  eng' = [eng EXCEPT ![g] =
           IF chunk = SENTINEL_CMD
           THEN [@ EXCEPT !.stdin = rest, !.out = @ \o SENTINEL \o <<"\n">>]
           ELSE IF IsQuit(chunk)
           THEN [@ EXCEPT !.stdin = <<>>, !.st = "exited"]
           ELSE [@ EXCEPT !.stdin = rest,
                          !.out = @ \o GAPOutputIn(eng[g].bound, RStripNL(chunk)),
                          !.err = @ \o GAPErrOutput(RStripNL(chunk)),
                          !.bound = @ \cup GAPBinds(RStripNL(chunk))]]
  /\ ret' = NoRet
  /\ UNCHANGED <<proc, outQ, errQ, lock, outStore, errStore, nextGen, pc, call, lines, nops, faults>>
  /\ UNCHANGED svars

\* GAP stops making progress on what it has to do (a computation too large,
\* a slow start); it may resume later.
GapStall(g) ==
  /\ eng[g].st = "run"
  /\ eng[g].stdin # <<>>
  /\ faults < MaxFaults
  /\ eng' = [eng EXCEPT ![g].st = "stalled"]
  /\ faults' = faults + 1
  /\ ret' = NoRet
  /\ UNCHANGED <<proc, outQ, errQ, lock, outStore, errStore, nextGen, pc, call, lines, nops>>
  /\ UNCHANGED svars

GapResume(g) ==
  /\ eng[g].st = "stalled"
  /\ eng' = [eng EXCEPT ![g].st = "run"]
  /\ ret' = NoRet
  /\ UNCHANGED <<proc, outQ, errQ, lock, outStore, errStore, nextGen, pc, call, lines, nops, faults>>
  /\ UNCHANGED svars

\* GAP exits on its own (a crash, a kill from outside).
GapCrash(g) ==
  /\ eng[g].st # "exited"
  /\ faults < MaxFaults
  /\ eng' = [eng EXCEPT ![g].st = "exited", ![g].stdin = <<>>]
  /\ faults' = faults + 1
  /\ ret' = NoRet
  /\ UNCHANGED <<proc, outQ, errQ, lock, outStore, errStore, nextGen, pc, call, lines, nops>>
  /\ UNCHANGED svars

\* A put at the head of the queue.
PutFront(store, q, x) ==
  IF q \in DOMAIN store THEN [store EXCEPT ![q] = <<x>> \o @] ELSE store

\* q.put(x): a put on a queue object the manager no longer references is
\* seen by nobody.
Put(store, q, x) ==
  IF q \in DOMAIN store THEN [store EXCEPT ![q] = Append(@, x)] ELSE store

\* One iteration of _read_stream on a pipe: the next line (a last line
\* without its newline when the stream has ended), or the EOF signal when the
\* stream has ended and is empty.  A reader blocks while its pipe holds no
\* whole line and the process lives.
NextLineEnd(pipe) == Min({i \in 1..Len(pipe) : pipe[i] = "\n"} \cup {Len(pipe)})

CanRead(pipe, st) ==
  \/ st = "exited"
  \/ pipe # <<>> /\ pipe[NextLineEnd(pipe)] = "\n"

ReadItem(g, pipe) ==
  IF pipe = <<>> THEN EofItem(g)
  ELSE LineItem(g, SubSeq(pipe, 1, NextLineEnd(pipe)))

ReadRest(pipe) ==
  IF pipe = <<>> THEN <<>>
  ELSE SubSeq(pipe, NextLineEnd(pipe) + 1, Len(pipe))

ReadStdout(g) ==
  /\ eng[g].outRd = "run"
  /\ CanRead(eng[g].out, eng[g].st)
  /\ outStore' = Put(outStore, eng[g].outTo, ReadItem(g, eng[g].out))
  /\ eng' = [eng EXCEPT ![g].out = ReadRest(@),
                        ![g].outRd = IF eng[g].out = <<>> THEN "done" ELSE @]
  /\ ret' = NoRet
  /\ UNCHANGED <<proc, outQ, errQ, lock, errStore, nextGen, pc, call, lines,
                 nops, faults>>
  /\ UNCHANGED svars

ReadStderr(g) ==
  /\ eng[g].errRd = "run"
  /\ CanRead(eng[g].err, eng[g].st)
  /\ errStore' = Put(errStore, eng[g].errTo, ReadItem(g, eng[g].err))
  /\ eng' = [eng EXCEPT ![g].err = ReadRest(@),
                        ![g].errRd = IF eng[g].err = <<>> THEN "done" ELSE @]
  /\ ret' = NoRet
  /\ UNCHANGED <<proc, outQ, errQ, lock, outStore, nextGen, pc, call, lines,
                 nops, faults>>
  /\ UNCHANGED svars

\* ------------------------------------------------------------ the manager
\* The manager's fields and what they refer to, as one value, so that the
\* steps of close and _start compose.
Mgr ==
  [proc |-> proc, outQ |-> outQ, errQ |-> errQ, eng |-> eng,
   outStore |-> outStore, errStore |-> errStore, nextGen |-> nextGen]

Apply(m) ==
  /\ proc' = m.proc
  /\ outQ' = m.outQ
  /\ errQ' = m.errQ
  /\ eng' = m.eng
  /\ outStore' = m.outStore
  /\ errStore' = m.errStore
  /\ nextGen' = m.nextGen

\* A start that keeps the queue objects of the previous generation.
NewQueueReused(old, g) == old

\* _start, lines 108-109: queue.Queue() is a new object at each start
NewQueue(old, g) == g

\* A reader thread whose queue no reference reaches any more is no longer
\* followed: whatever it still puts is seen by nobody.
Untrack(e, oq, eq) ==
  [g \in DOMAIN e |->
     [e[g] EXCEPT
        !.outRd = IF e[g].outTo = oq THEN @ ELSE "done",
        !.out   = IF e[g].outTo = oq THEN @ ELSE <<>>,
        !.errRd = IF e[g].errTo = eq THEN @ ELSE "done",
        !.err   = IF e[g].errTo = eq THEN @ ELSE <<>>]]

\* A start that does not assign the new process to the handle.
SpawnKeepsHandle(m) ==
  LET g  == m.nextGen
      oq == NewQueue(m.outQ, g)
      eq == NewQueue(m.errQ, g)
  IN  [proc |-> m.proc, outQ |-> oq, errQ |-> eq,
       eng |-> Untrack(m.eng, oq, eq) @@ (g :> NewProcess(oq, eq)),
       outStore |-> (oq :> <<>>),
       errStore |-> (eq :> <<>>),
       nextGen |-> g + 1]

\* _start up to the write of the handshake's sentinel command.
Spawn(m) ==
  LET g  == m.nextGen
      oq == NewQueue(m.outQ, g)
      eq == NewQueue(m.errQ, g)
  IN  [proc |-> g, outQ |-> oq, errQ |-> eq,
       eng |-> Untrack(m.eng, oq, eq) @@ (g :> NewProcess(oq, eq)),
       outStore |-> (oq :> IF oq \in DOMAIN m.outStore THEN m.outStore[oq]
                                 ELSE <<>>),
       errStore |-> (eq :> IF eq \in DOMAIN m.errStore THEN m.errStore[eq]
                                 ELSE <<>>),
       nextGen |-> g + 1]

\* A blocking get on queue q, or a wait on the process, may time out: nothing
\* is in the queue and no reader that feeds it can deliver anything unless
\* time passes.
Quiet(e, g) ==
  /\ e[g].out = <<>>
  /\ \/ e[g].st = "stalled"
     \/ e[g].st = "run" /\ e[g].stdin = <<>>

CanTimeOut(m) ==
  /\ m.outStore[m.outQ] = <<>>
  /\ \A g \in DOMAIN m.eng :
       (m.eng[g].outTo = m.outQ /\ m.eng[g].outRd = "run") => Quiet(m.eng, g)

\* A lock that never blocks.
LockAlwaysFree(l) == TRUE

\* threading.Lock: acquire blocks while another thread holds it
LockFree(l) == l = 0

\* An end of call that leaves the lock as it is.
EndKeepsLock(t, kind, exc, res, c) ==
  /\ pc' = [pc EXCEPT ![t] = "idle"]
  /\ call' = [call EXCEPT ![t] = NoCall]
  /\ lines' = [lines EXCEPT ![t] = <<>>]
  /\ lock' = lock
  /\ ret' = [caller |-> t, kind |-> kind, exc |-> exc, res |-> res,
             call |-> c, lines |-> lines[t]]

\* What a call leaves behind when it ends: the caller is idle again, the lock
\* is released if the call held it (the with statement), and ret records how
\* the call ended.
End(t, kind, exc, res, c) ==
  /\ pc' = [pc EXCEPT ![t] = "idle"]
  /\ call' = [call EXCEPT ![t] = NoCall]
  /\ lines' = [lines EXCEPT ![t] = <<>>]
  /\ lock' = IF c.op \in {"execute", "reset"} /\ c.ctx # "filter" THEN 0 ELSE lock
  /\ ret' = [caller |-> t, kind |-> kind, exc |-> exc, res |-> res,
             call |-> c, lines |-> lines[t]]

Returns(t, res, c) == End(t, "ret", "", res, c)

Raises(t, exc, c) == End(t, "raise", exc, NoResult, c)

\* execute, lines 225-234: the filter rejects the command.
ExecBlocked(t, code, tmo) ==
  /\ pc[t] = "idle"
  /\ nops < MaxOps
  /\ contains_blocked(code).some
  /\ nops' = nops + 1
  /\ Returns(t, BlockedResult(contains_blocked(code).val),
             [NoCall EXCEPT !.op = "execute", !.cmd = code, !.tmo = tmo,
                            !.ctx = "filter"])
  /\ UNCHANGED <<proc, outQ, errQ, eng, outStore, errStore, nextGen, faults>>
  /\ UNCHANGED svars

\* execute, line 236: the filter passed, the caller goes for the lock.
ExecCall(t, code, tmo) ==
  /\ pc[t] = "idle"
  /\ nops < MaxOps
  /\ ~contains_blocked(code).some
  /\ nops' = nops + 1
  /\ pc' = [pc EXCEPT ![t] = "lock"]
  /\ call' = [call EXCEPT ![t] =
       [NoCall EXCEPT !.op = "execute", !.cmd = code, !.tmo = tmo]]
  /\ ret' = NoRet
  /\ UNCHANGED <<proc, outQ, errQ, lock, eng, outStore, errStore, nextGen, lines, faults>>
  /\ UNCHANGED svars

\* A reset that reports success without closing or starting anything.
ResetSkipsRestart(t) ==
  /\ pc[t] = "idle"
  /\ nops < MaxOps
  /\ nops' = nops + 1
  /\ Returns(t, ResetResult, [NoCall EXCEPT !.op = "reset", !.ctx = "filter"])
  /\ UNCHANGED <<proc, outQ, errQ, eng, outStore, errStore, nextGen, faults>>
  /\ UNCHANGED svars

\* reset, line 157
ResetCall(t) ==
  /\ pc[t] = "idle"
  /\ nops < MaxOps
  /\ nops' = nops + 1
  /\ pc' = [pc EXCEPT ![t] = "lock"]
  /\ call' = [call EXCEPT ![t] = [NoCall EXCEPT !.op = "reset"]]
  /\ ret' = NoRet
  /\ UNCHANGED <<proc, outQ, errQ, lock, eng, outStore, errStore, nextGen, lines, faults>>
  /\ UNCHANGED svars

\* close, lines 145-149: a live process is sent QUIT and waited for; with no
\* live process close goes straight to line 152.  ctx says who called close
\* and so what follows it: "close" (the caller), "reset", "timeout" (execute's
\* handler, line 251).  lk is the lock's holder while close runs.
CloseBegin(t, c, ctx, lk) ==
  IF Alive(eng, proc)
  THEN /\ eng' = [eng EXCEPT ![proc].stdin = Append(@, QUIT_CMD)]
       /\ pc' = [pc EXCEPT ![t] = "closing"]
       /\ call' = [call EXCEPT ![t] = [c EXCEPT !.ctx = ctx, !.g = proc]]
       /\ lock' = lk
       /\ ret' = NoRet
       /\ UNCHANGED <<proc, outQ, errQ, outStore, errStore, nextGen, lines>>
  ELSE IF ctx = "close"
  THEN /\ proc' = 0
       /\ Returns(t, NoResult, [c EXCEPT !.ctx = ctx])
       /\ UNCHANGED <<outQ, errQ, eng, outStore, errStore, nextGen>>
  ELSE /\ Apply(Spawn([Mgr EXCEPT !.proc = 0]))
       /\ pc' = [pc EXCEPT ![t] = "hs"]
       /\ call' = [call EXCEPT ![t] =
            [c EXCEPT !.ctx = ctx, !.g = nextGen, !.spawned = @ + 1]]
       /\ lock' = lk
       /\ ret' = NoRet
       /\ UNCHANGED lines

\* close called by a caller, with no lock taken (lines 143-153).
CloseCall(t) ==
  /\ pc[t] = "idle"
  /\ nops < MaxOps
  /\ nops' = nops + 1
  /\ CloseBegin(t, [NoCall EXCEPT !.op = "close"], "close", lock)
  /\ UNCHANGED faults
  /\ UNCHANGED svars

\* with self._lock, then execute's liveness check (lines 236-239) or reset's
\* close (line 158).
Acquire(t) ==
  /\ pc[t] = "lock"
  /\ LockFree(lock)
  /\ IF call[t].op = "reset"
     THEN CloseBegin(t, call[t], "reset", t)
     ELSE IF Alive(eng, proc)
     THEN /\ pc' = [pc EXCEPT ![t] = "write"]
          /\ lock' = t
          /\ ret' = NoRet
          /\ UNCHANGED <<proc, outQ, errQ, eng, outStore, errStore, nextGen, call, lines>>
     ELSE /\ Apply(Spawn(Mgr))
          /\ pc' = [pc EXCEPT ![t] = "hs"]
          /\ call' = [call EXCEPT ![t] =
               [@ EXCEPT !.ctx = "entry", !.g = nextGen, !.spawned = @ + 1]]
          /\ lock' = t
          /\ ret' = NoRet
          /\ UNCHANGED lines
  /\ UNCHANGED <<nops, faults>>
  /\ UNCHANGED svars

\* A kill that leaves the process running.
KillNothing(e, g) == e

\* close, line 151: self._process.kill()
Kill(e, g) == [e EXCEPT ![g].st = "exited", ![g].stdin = <<>>]

\* close, lines 149-152: the wait ends because the process exited, or it
\* times out and the current self._process is killed; then the handle is
\* dropped.  What follows depends on who called close.
CloseEnd(t) ==
  /\ pc[t] = "closing"
  /\ LET g == call[t].g
         c == call[t]
         after(m) ==
           IF c.ctx = "close"
           THEN /\ Apply(m)
                /\ Returns(t, NoResult, c)
           ELSE /\ Apply(Spawn(m))
                /\ pc' = [pc EXCEPT ![t] = "hs"]
                /\ call' = [call EXCEPT ![t] =
                     [c EXCEPT !.g = m.nextGen, !.spawned = @ + 1]]
                /\ ret' = NoRet
                /\ UNCHANGED <<lock, lines>>
     IN  /\ eng[g].st \in {"exited", "stalled"}
         /\ IF eng[g].st = "exited"
            THEN after([Mgr EXCEPT !.proc = 0])
            ELSE IF proc # 0
            THEN after([Mgr EXCEPT !.proc = 0, !.eng = Kill(@, proc)])
            ELSE /\ Raises(t, "AttributeError", c)
                 /\ UNCHANGED <<proc, outQ, errQ, eng, outStore, errStore,
                                nextGen>>
  /\ UNCHANGED <<nops, faults>>
  /\ UNCHANGED svars

\* A reader loop that takes any line for the sentinel.
IsSentinelAny(v) == TRUE

\* _send_sentinel, lines 184-185
IsSentinelLine(v) == RStripNL(v) = SENTINEL

\* A termination path that keeps the dead handle.
HandleKept(p) == p

\* execute, line 255: self._process = None
HandleAfterEof(p) == 0

\* _start, line 134: one get of the handshake's _send_sentinel.
HsGet(t) ==
  /\ pc[t] = "hs"
  /\ outStore[outQ] # <<>>
  /\ LET item == Head(outStore[outQ])
         c    == call[t]
     IN  /\ outStore' = [outStore EXCEPT ![outQ] = Tail(@)]
         /\ IF item.eof
            THEN /\ Raises(t, "RuntimeError", c)
                 /\ eng' = eng
            ELSE IF ~IsSentinelLine(item.v)
            THEN /\ eng' = eng
                 /\ ret' = NoRet
                 /\ UNCHANGED <<pc, call, lines, lock>>
            ELSE /\ eng' = [eng EXCEPT ![c.g].ready = TRUE]
                 /\ IF c.ctx = "entry"
                    THEN /\ pc' = [pc EXCEPT ![t] = "write"]
                         /\ ret' = NoRet
                         /\ UNCHANGED <<call, lines, lock>>
                    ELSE IF c.ctx = "reset"
                    THEN Returns(t, ResetResult, c)
                    ELSE Returns(t,
                           Result(FALSE, <<>>,
                                  Some(TimeoutMessage(EffectiveTimeout(c.tmo)))),
                           c)
  /\ UNCHANGED <<proc, outQ, errQ, errStore, nextGen, nops, faults>>
  /\ UNCHANGED svars

\* _start, line 134: the handshake's get times out; TimeoutError leaves
\* _start and the operation that called it.
HsTimeout(t) ==
  /\ pc[t] = "hs"
  /\ CanTimeOut(Mgr)
  /\ Raises(t, "TimeoutError", call[t])
  /\ UNCHANGED <<proc, outQ, errQ, eng, outStore, errStore, nextGen, nops,
                 faults>>
  /\ UNCHANGED svars

\* A normalisation that ends the command with a statement terminator.
FullCodeTerminated(code) == Strip(code) \o <<";", "\n">>

\* execute, line 244: full_code = code.strip() + "\n"
FullCode(code) == Strip(code) \o <<"\n">>

\* execute, lines 244-248, and _send_sentinel, lines 169-170: the command
\* and the sentinel command are written to stdin.
ExecWrite(t) ==
  /\ pc[t] = "write"
  /\ IF proc = 0
     THEN /\ Raises(t, "AttributeError", call[t])
          /\ eng' = eng
     ELSE IF ~Alive(eng, proc)
     THEN /\ Raises(t, "BrokenPipeError", call[t])
          /\ eng' = eng
     ELSE /\ eng' = [eng EXCEPT ![proc].stdin =
                 @ \o <<FullCode(call[t].cmd), SENTINEL_CMD>>]
          /\ pc' = [pc EXCEPT ![t] = "await"]
          /\ call' = [call EXCEPT ![t].g = proc]
          /\ ret' = NoRet
          /\ UNCHANGED <<lines, lock>>
  /\ UNCHANGED <<proc, outQ, errQ, outStore, errStore, nextGen, nops, faults>>
  /\ UNCHANGED svars

\* _drain_stderr: the lines in the stderr queue up to an EOF signal or the
\* queue's end, and what it leaves in the queue.
DrainEnd(q) == Min({i \in 1..Len(q) : q[i].eof} \cup {Len(q) + 1})

DrainText(q) == Join([i \in 1..(DrainEnd(q) - 1) |-> RStripNL(q[i].v)])

DrainRest(q) == SubSeq(q, DrainEnd(q) + 1, Len(q))

\* _send_sentinel, lines 173-188, called from execute: one get, and what
\* execute does when it ends the loop (lines 254-266).
ExecGet(t) ==
  /\ pc[t] = "await"
  /\ outStore[outQ] # <<>>
  /\ LET item == Head(outStore[outQ])
         c    == [call[t] EXCEPT !.stale = @ \/ item.g # call[t].g,
                                 !.idle = 0]
     IN  /\ outStore' = [outStore EXCEPT ![outQ] = Tail(@)]
         /\ IF item.eof
            THEN /\ proc' = HandleAfterEof(proc)
                 /\ Returns(t, Result(FALSE, <<>>, Some(TerminatedMessage)), c)
                 /\ errStore' = errStore
            ELSE IF IsSentinelLine(item.v)
            THEN /\ proc' = proc
                 /\ errStore' = [errStore EXCEPT ![errQ] = DrainRest(@)]
                 /\ Returns(t, SentinelResult(lines[t], DrainText(errStore[errQ])), c)
            ELSE /\ proc' = proc
                 /\ errStore' = errStore
                 /\ lines' = [lines EXCEPT ![t] = Append(@, RStripNL(item.v))]
                 /\ call' = [call EXCEPT ![t] = c]
                 /\ ret' = NoRet
                 /\ UNCHANGED <<pc, lock>>
  /\ UNCHANGED <<outQ, errQ, eng, nextGen, nops, faults>>
  /\ UNCHANGED svars

\* _send_sentinel, lines 176-181: the get times out; execute's handler
\* (lines 249-253) closes and restarts.
TimeoutHandler(t) ==
  CloseBegin(t, [call[t] EXCEPT !.timedOut = TRUE], "timeout", lock)

ExecTimeout(t) ==
  /\ pc[t] = "await"
  /\ CanTimeOut(Mgr)
  /\ TimeoutHandler(t)
  /\ UNCHANGED <<nops, faults>>
  /\ UNCHANGED svars

\* ---------------------------------------------------------- counted time
\* In SpecTimed a tick is a second.  call[t].idle counts the ticks the
\* current get has waited, call[t].waited the ticks execute has waited for
\* the sentinel since it wrote the command.  GAP prints a statement's output
\* a line at a time, whenever it likes.
Overhead == 1

GapStepLine(g) ==
  /\ eng[g].st = "run"
  /\ eng[g].todo # <<>> \/ eng[g].stdin # <<>>
  /\ LET e     == eng[g]
         k     == NextLineEnd(e.todo)
         chunk == Head(e.stdin)
         rest  == Tail(e.stdin)
     IN  eng' = [eng EXCEPT ![g] =
           IF e.todo # <<>>
           THEN [e EXCEPT !.out = @ \o SubSeq(e.todo, 1, k),
                          !.todo = SubSeq(e.todo, k + 1, Len(e.todo))]
           ELSE IF chunk = SENTINEL_CMD
           THEN [e EXCEPT !.stdin = rest, !.out = @ \o SENTINEL \o <<"\n">>]
           ELSE IF IsQuit(chunk)
           THEN [e EXCEPT !.stdin = <<>>, !.st = "exited"]
           ELSE [e EXCEPT !.stdin = rest,
                          !.todo = GAPOutputIn(e.bound, RStripNL(chunk)),
                          !.err = @ \o GAPErrOutput(RStripNL(chunk)),
                          !.bound = @ \cup GAPBinds(RStripNL(chunk))]]
  /\ ret' = NoRet
  /\ UNCHANGED <<proc, outQ, errQ, lock, outStore, errStore, nextGen, pc, call,
                 lines, nops, faults>>
  /\ UNCHANGED svars

\* queue.get(timeout=t), line 175: a second passes with the queue empty.
Tick(t) ==
  /\ pc[t] = "await"
  /\ outStore[outQ] = <<>>
  /\ call[t].idle < EffectiveTimeout(call[t].tmo)
  /\ call[t].waited <= EffectiveTimeout(call[t].tmo) + Overhead
  /\ call' = [call EXCEPT ![t].idle = @ + 1, ![t].waited = @ + 1]
  /\ ret' = NoRet
  /\ UNCHANGED <<proc, outQ, errQ, lock, eng, outStore, errStore, nextGen, pc,
                 lines, nops, faults>>
  /\ UNCHANGED svars

\* queue.Empty after t seconds, lines 176-181, and execute's handler.
ExecTimeoutTimed(t) ==
  /\ pc[t] = "await"
  /\ outStore[outQ] = <<>>
  /\ call[t].idle = EffectiveTimeout(call[t].tmo)
  /\ TimeoutHandler(t)
  /\ UNCHANGED <<nops, faults>>
  /\ UNCHANGED svars

\* --------------------------------------------------------- specification
Next ==
  \/ \E t \in Callers, code \in Commands, tmo \in TimeoutArgs :
       ExecBlocked(t, code, tmo)
  \/ \E t \in Callers, code \in Commands, tmo \in TimeoutArgs :
       ExecCall(t, code, tmo)
  \/ \E t \in Callers : ResetCall(t)
  \/ \E t \in Callers : CloseCall(t)
  \/ \E t \in Callers : Acquire(t)
  \/ \E t \in Callers : CloseEnd(t)
  \/ \E t \in Callers : HsGet(t)
  \/ \E t \in Callers : HsTimeout(t)
  \/ \E t \in Callers : ExecWrite(t)
  \/ \E t \in Callers : ExecGet(t)
  \/ \E t \in Callers : ExecTimeout(t)
  \/ \E g \in DOMAIN eng : GapStep(g)
  \/ \E g \in DOMAIN eng : GapStall(g)
  \/ \E g \in DOMAIN eng : GapResume(g)
  \/ \E g \in DOMAIN eng : GapCrash(g)
  \/ \E g \in DOMAIN eng : ReadStdout(g)
  \/ \E g \in DOMAIN eng : ReadStderr(g)

Spec == Init /\ [][Next]_vars

\* Callers that use execute and reset only: close is called by nobody but
\* the manager itself.
NextNoClose ==
  \/ \E t \in Callers, code \in Commands, tmo \in TimeoutArgs :
       ExecBlocked(t, code, tmo)
  \/ \E t \in Callers, code \in Commands, tmo \in TimeoutArgs :
       ExecCall(t, code, tmo)
  \/ \E t \in Callers : ResetCall(t)
  \/ \E t \in Callers : Acquire(t)
  \/ \E t \in Callers : CloseEnd(t)
  \/ \E t \in Callers : HsGet(t)
  \/ \E t \in Callers : HsTimeout(t)
  \/ \E t \in Callers : ExecWrite(t)
  \/ \E t \in Callers : ExecGet(t)
  \/ \E t \in Callers : ExecTimeout(t)
  \/ \E g \in DOMAIN eng : GapStep(g)
  \/ \E g \in DOMAIN eng : GapStall(g)
  \/ \E g \in DOMAIN eng : GapResume(g)
  \/ \E g \in DOMAIN eng : GapCrash(g)
  \/ \E g \in DOMAIN eng : ReadStdout(g)
  \/ \E g \in DOMAIN eng : ReadStderr(g)

SpecNoClose == Init /\ [][NextNoClose]_vars

\* Concurrent callers of execute and a responsive GAP: no stall, no crash,
\* no reset, no close.
NextSerial ==
  \/ \E t \in Callers, code \in Commands, tmo \in TimeoutArgs :
       ExecBlocked(t, code, tmo)
  \/ \E t \in Callers, code \in Commands, tmo \in TimeoutArgs :
       ExecCall(t, code, tmo)
  \/ \E t \in Callers : Acquire(t)
  \/ \E t \in Callers : ExecWrite(t)
  \/ \E t \in Callers : ExecGet(t)
  \/ \E g \in DOMAIN eng : GapStep(g)
  \/ \E g \in DOMAIN eng : ReadStdout(g)
  \/ \E g \in DOMAIN eng : ReadStderr(g)

SpecSerial == Init /\ [][NextSerial]_vars

\* One caller of execute, seconds counted, GAP as slow as it likes.
TimedCommands == {CmdArith, CmdLoop, CmdFail}

NextTimed ==
  \/ \E code \in TimedCommands, tmo \in TimedTimeoutArgs : ExecCall(1, code, tmo)
  \/ Acquire(1)
  \/ ExecWrite(1)
  \/ ExecGet(1)
  \/ Tick(1)
  \/ ExecTimeoutTimed(1)
  \/ CloseEnd(1)
  \/ HsGet(1)
  \/ \E g \in DOMAIN eng : GapStepLine(g)
  \/ \E g \in DOMAIN eng : ReadStdout(g)
  \/ \E g \in DOMAIN eng : ReadStderr(g)

SpecTimed == Init /\ [][NextTimed]_vars

\* ------------------------------------------------------------- the filter
\* execute on every command of up to MaxLen tokens, the tokens of the
\* deny-list's first three patterns among them: the filter decides which branch each takes.
FilterTokens ==
  {"QUIT", "quit", "Exec", "(", "x"}

FilterInputs == UNION {[1..n -> FilterTokens] : n \in 1..MaxLen}

NextFilter ==
  \/ \E code \in FilterInputs, tmo \in TimeoutArgs : ExecBlocked(1, code, tmo)
  \/ \E code \in FilterInputs, tmo \in TimeoutArgs : ExecCall(1, code, tmo)

SpecFilter == Init /\ [][NextFilter]_vars

\* ------------------------------------------------------------ get_runner
\* get_runner is called (line 275).
GetCall(t) ==
  /\ gpc[t] = "idle"
  /\ gpc' = [gpc EXCEPT ![t] = "check"]
  /\ UNCHANGED <<runner, runnerLock, got, built>>
  /\ UNCHANGED mvars

\* line 278: if _runner is None
GetCheck(t) ==
  /\ gpc[t] = "check"
  /\ gpc' = [gpc EXCEPT ![t] = IF runner = 0 THEN "lock" ELSE "return"]
  /\ UNCHANGED <<runner, runnerLock, got, built>>
  /\ UNCHANGED mvars

\* line 279: with _runner_lock
GetAcquire(t) ==
  /\ gpc[t] = "lock"
  /\ runnerLock = 0
  /\ runnerLock' = t
  /\ gpc' = [gpc EXCEPT ![t] = "recheck"]
  /\ UNCHANGED <<runner, got, built>>
  /\ UNCHANGED mvars

\* A second check that is skipped: the thread constructs whatever it finds.
GetRecheckSkipped(t) ==
  /\ gpc[t] = "recheck"
  /\ gpc' = [gpc EXCEPT ![t] = "construct"]
  /\ UNCHANGED <<runner, runnerLock, got, built>>
  /\ UNCHANGED mvars

\* line 280: the second check, under the lock; the with block ends when
\* the instance is there.
GetRecheck(t) ==
  /\ gpc[t] = "recheck"
  /\ gpc' = [gpc EXCEPT ![t] = IF runner = 0 THEN "construct" ELSE "return"]
  /\ runnerLock' = IF runner = 0 THEN runnerLock ELSE 0
  /\ UNCHANGED <<runner, got, built>>
  /\ UNCHANGED mvars

\* line 281: _runner = GAPRunner(), and the with block ends.
GetConstruct(t) ==
  /\ gpc[t] = "construct"
  /\ runner' = built + 1
  /\ built' = built + 1
  /\ runnerLock' = 0
  /\ gpc' = [gpc EXCEPT ![t] = "return"]
  /\ UNCHANGED got
  /\ UNCHANGED mvars

\* line 281: GAPRunner() raises (no executable found, lines 57-60, or a
\* handshake that fails, line 134); the with statement releases the lock and
\* get_runner raises with _runner still None.
GetConstructFails(t) ==
  /\ gpc[t] = "construct"
  /\ runnerLock' = 0
  /\ gpc' = [gpc EXCEPT ![t] = "idle"]
  /\ UNCHANGED <<runner, got, built>>
  /\ UNCHANGED mvars

\* line 282: return _runner
GetReturn(t) ==
  /\ gpc[t] = "return"
  /\ got' = [got EXCEPT ![t] = runner]
  /\ gpc' = [gpc EXCEPT ![t] = "idle"]
  /\ UNCHANGED <<runner, runnerLock, built>>
  /\ UNCHANGED mvars

NextSingleton ==
  \/ \E t \in Threads : GetCall(t)
  \/ \E t \in Threads : GetCheck(t)
  \/ \E t \in Threads : GetAcquire(t)
  \/ \E t \in Threads : GetRecheck(t)
  \/ \E t \in Threads : GetConstruct(t)
  \/ \E t \in Threads : GetConstructFails(t)
  \/ \E t \in Threads : GetReturn(t)

SpecSingleton == Init /\ [][NextSingleton]_vars

\* execute and reset on the session's variables, the engine stalling or
\* dying at will.
NextSession ==
  \/ \E t \in Callers, code \in SessionCommands, tmo \in TimeoutArgs :
       ExecCall(t, code, tmo)
  \/ \E t \in Callers : ResetCall(t)
  \/ \E t \in Callers : Acquire(t)
  \/ \E t \in Callers : CloseEnd(t)
  \/ \E t \in Callers : HsGet(t)
  \/ \E t \in Callers : HsTimeout(t)
  \/ \E t \in Callers : ExecWrite(t)
  \/ \E t \in Callers : ExecGet(t)
  \/ \E t \in Callers : ExecTimeout(t)
  \/ \E g \in DOMAIN eng : GapStep(g)
  \/ \E g \in DOMAIN eng : GapStall(g)
  \/ \E g \in DOMAIN eng : GapResume(g)
  \/ \E g \in DOMAIN eng : GapCrash(g)
  \/ \E g \in DOMAIN eng : ReadStdout(g)
  \/ \E g \in DOMAIN eng : ReadStderr(g)

SpecSession == Init /\ [][NextSession]_vars

\* Concurrent callers of execute on the commands of TextCommands, GAP as
\* slow or as short-lived as it likes.
NextText ==
  \/ \E t \in Callers, code \in TextCommands, tmo \in TimeoutArgs :
       ExecBlocked(t, code, tmo)
  \/ \E t \in Callers, code \in TextCommands, tmo \in TimeoutArgs :
       ExecCall(t, code, tmo)
  \/ \E t \in Callers : Acquire(t)
  \/ \E t \in Callers : CloseEnd(t)
  \/ \E t \in Callers : HsGet(t)
  \/ \E t \in Callers : HsTimeout(t)
  \/ \E t \in Callers : ExecWrite(t)
  \/ \E t \in Callers : ExecGet(t)
  \/ \E t \in Callers : ExecTimeout(t)
  \/ \E g \in DOMAIN eng : GapStep(g)
  \/ \E g \in DOMAIN eng : GapStall(g)
  \/ \E g \in DOMAIN eng : GapResume(g)
  \/ \E g \in DOMAIN eng : GapCrash(g)
  \/ \E g \in DOMAIN eng : ReadStdout(g)
  \/ \E g \in DOMAIN eng : ReadStderr(g)

SpecText == Init /\ [][NextText]_vars

\* Concurrent callers of execute and reset with the scheduling the code
\* relies on: a thread that can take a step of its call takes it, GAP runs
\* what it has read unless it stalls or dies, the reader threads read, a get
\* that can time out does, and a caller that finds the lock free again and
\* again acquires it.
NextFair ==
  \/ \E t \in Callers, tmo \in TimeoutArgs : ExecCall(t, CmdLoop, tmo)
  \/ \E t \in Callers : ResetCall(t)
  \/ \E t \in Callers : Acquire(t)
  \/ \E t \in Callers : CloseEnd(t)
  \/ \E t \in Callers : HsGet(t)
  \/ \E t \in Callers : HsTimeout(t)
  \/ \E t \in Callers : ExecWrite(t)
  \/ \E t \in Callers : ExecGet(t)
  \/ \E t \in Callers : ExecTimeout(t)
  \/ \E g \in DOMAIN eng : GapStep(g)
  \/ \E g \in DOMAIN eng : GapStall(g)
  \/ \E g \in DOMAIN eng : GapResume(g)
  \/ \E g \in DOMAIN eng : GapCrash(g)
  \/ \E g \in DOMAIN eng : ReadStdout(g)
  \/ \E g \in DOMAIN eng : ReadStderr(g)

Fairness ==
  /\ \A t \in Callers : SF_vars(Acquire(t))
  /\ WF_vars(\E t \in Callers : CloseEnd(t))
  /\ WF_vars(\E t \in Callers : HsGet(t))
  /\ WF_vars(\E t \in Callers : HsTimeout(t))
  /\ WF_vars(\E t \in Callers : ExecWrite(t))
  /\ WF_vars(\E t \in Callers : ExecGet(t))
  /\ WF_vars(\E t \in Callers : ExecTimeout(t))
  /\ WF_vars(\E g \in DOMAIN eng : GapStep(g))
  /\ WF_vars(\E g \in DOMAIN eng : ReadStdout(g))
  /\ WF_vars(\E g \in DOMAIN eng : ReadStderr(g))

SpecFair == Init /\ [][NextFair]_vars /\ Fairness

\* One caller of execute and close, one call after the other, and a
\* responsive GAP.
NextClose ==
  \/ \E code \in AcceptedCommands, tmo \in TimeoutArgs : ExecCall(1, code, tmo)
  \/ CloseCall(1)
  \/ Acquire(1)
  \/ CloseEnd(1)
  \/ HsGet(1)
  \/ ExecWrite(1)
  \/ ExecGet(1)
  \/ \E g \in DOMAIN eng : GapStep(g)
  \/ \E g \in DOMAIN eng : ReadStdout(g)
  \/ \E g \in DOMAIN eng : ReadStderr(g)

SpecClose == Init /\ [][NextClose]_vars

\* ------------------------------------------------------------------ claims
\* A caller is inside the section the lock guards: past "with self._lock" in
\* execute or reset and not yet out of it.
InSection(t) ==
  /\ call[t].op \in {"execute", "reset"}
  /\ pc[t] \in {"write", "await", "hs", "closing"}

\* C1: at most one caller is inside the write-command/await-sentinel section
\* of execute and reset at any time, it is the holder of the lock, and every
\* other execute or reset caller is still waiting for the lock.
C1_MutualExclusion ==
  /\ \A t1, t2 \in Callers : InSection(t1) /\ InSection(t2) => t1 = t2
  /\ \A t \in Callers : InSection(t) => lock = t
  /\ \A t \in Callers : lock = t => InSection(t)

C1_Witness ==
  \E t1, t2 \in Callers :
    t1 # t2 /\ pc[t1] = "await" /\ pc[t2] = "lock" /\ call[t2].op = "execute"

\* The lines a reader and rstrip make of a text.
RECURSIVE SplitLines(_)
SplitLines(text) ==
  IF text = <<>> THEN <<>>
  ELSE <<RStripNL(SubSeq(text, 1, NextLineEnd(text)))>>
       \o SplitLines(SubSeq(text, NextLineEnd(text) + 1, Len(text)))

\* C2: with concurrent callers of execute and a responsive GAP, every
\* execute that passes the filter returns, and what it collected is exactly
\* the stdout lines GAP printed for its own command, in order, none from
\* another command or generation; no get is ever in a position to time out.
C2_OwnOutput ==
  /\ ret.kind # "raise"
  /\ (ret.kind = "ret" /\ ret.call.op = "execute" /\ ret.call.ctx # "filter") =>
       /\ ret.lines = SplitLines(GAPOutput(Strip(ret.call.cmd)))
       /\ ret.res.output = Strip(GAPOutput(Strip(ret.call.cmd)))
       /\ ~ret.call.stale
  /\ \A t \in Callers : pc[t] = "await" => ~CanTimeOut(Mgr)

C2_Witness ==
  /\ ret.kind = "ret"
  /\ ret.call.cmd = CmdLoop
  /\ Len(ret.lines) = 2
  /\ \E t \in Callers : pc[t] = "lock" /\ call[t].cmd = CmdBad

\* The command a step invokes execute with, for caller t.
InvokedWith(t, c, r) == IF r.caller = t THEN r.call.cmd ELSE c[t].cmd

InvokesExecute(t) ==
  /\ pc[t] = "idle"
  /\ nops' = nops + 1
  /\ (ret'.caller = t /\ ret'.call.op = "execute")
       \/ (pc'[t] # "idle" /\ call'[t].op = "execute")

\* C3: a step that invokes execute with a command containing a deny-list
\* pattern returns, in that step, success = false, output "" and an error
\* containing "Blocked", and changes neither the process handle, the queues,
\* the lock nor any subprocess (nothing written, nothing started), whatever
\* the state: process absent or dead, another execute in flight.
C3_BlockedNoEffect ==
  [][\A t \in Callers :
       (InvokesExecute(t)
        /\ \E d \in Dangerous : Contains(InvokedWith(t, call', ret'), d))
       => /\ ret'.caller = t
          /\ ret'.kind = "ret"
          /\ ~ret'.res.success
          /\ ret'.res.output = <<>>
          /\ ret'.res.error.some
          /\ Contains(ret'.res.error.val, <<"Blocked">>)
          /\ pc'[t] = "idle"
          /\ UNCHANGED <<proc, outQ, errQ, lock, eng, outStore, errStore,
                         nextGen>>]_vars

C3_Witness ==
  /\ ret.kind = "ret"
  /\ ret.call.ctx = "filter"
  /\ Contains(ret.res.error.val, <<"Blocked">>)
  /\ \E t \in Callers : pc[t] = "await"

\* C4: an execute whose get timed out returns success = false, output "" and
\* an error containing "did not respond", and when it returns the handle is a
\* live generation started after the one that timed out, its handshake done,
\* its queues holding nothing of an earlier generation.
C4_TimeoutRestarts ==
  (ret.kind # "none" /\ ret.call.op = "execute" /\ ret.call.timedOut) =>
    /\ ret.kind = "ret"
    /\ ~ret.res.success
    /\ ret.res.output = <<>>
    /\ ret.res.error.some
    /\ Contains(ret.res.error.val, <<"did not respond">>)
    /\ Alive(eng, proc)
    /\ eng[proc].ready
    /\ proc = nextGen - 1
    /\ outStore[outQ] = <<>>

\* C5: while execute waits for the sentinel of an accepted command, it has
\* waited no longer than the applicable timeout plus the overhead.
C5_WaitWithinTimeout ==
  \A t \in Callers :
    pc[t] = "await" =>
      call[t].waited <= EffectiveTimeout(call[t].tmo) + Overhead

\* C6: execute never ends by raising to its caller.
C6_NeverRaises == ret.call.op = "execute" => ret.kind # "raise"

\* The caller t takes a step.
Steps(t) == pc'[t] # pc[t] \/ call'[t] # call[t] \/ lines'[t] # lines[t]

\* C7: when execute meets the end-marker while it awaits its sentinel, it
\* returns success = false, output "" and the "terminated unexpectedly"
\* error in that step, leaves the handle absent and starts no process; and an
\* execute that finds the handle absent or dead when it has the lock starts a
\* new generation there and then, and writes its command to that generation.
C7_LazyRestart ==
  [][\A t \in Callers :
       /\ (pc[t] = "await" /\ outStore[outQ] # <<>> /\ Head(outStore[outQ]).eof
           /\ Steps(t))
          => /\ ret'.caller = t
             /\ ret'.kind = "ret"
             /\ ret'.res = Result(FALSE, <<>>, Some(TerminatedMessage))
             /\ proc' = 0
             /\ nextGen' = nextGen
       /\ (pc[t] = "lock" /\ call[t].op = "execute" /\ Steps(t)
           /\ ~Alive(eng, proc))
          => /\ pc'[t] = "hs"
             /\ proc' = nextGen
             /\ nextGen' = nextGen + 1
             /\ call'[t].g = proc'
       /\ (pc[t] = "write" /\ pc'[t] = "await" /\ call[t].spawned > 0)
          => /\ call'[t].g = call[t].g
             /\ eng[call[t].g].ready
             /\ eng'[call[t].g].stdin =
                  eng[call[t].g].stdin
                  \o <<Strip(call[t].cmd) \o <<"\n">>, SENTINEL_CMD>>]_vars

C7_Witness ==
  /\ ret.kind = "ret"
  /\ ret.call.op = "execute"
  /\ ret.res.error = Some(TerminatedMessage)
  /\ proc = 0
  /\ \E t \in Callers : pc[t] = "lock" /\ call[t].op = "execute"

\* C8: the queues the manager reads hold only what the readers of the latest
\* generation put there, and no execute returns after consuming anything an
\* earlier generation produced.
C8_NoStaleItems ==
  /\ \A i \in 1..Len(outStore[outQ]) : outStore[outQ][i].g = nextGen - 1
  /\ \A i \in 1..Len(errStore[errQ]) : errStore[errQ][i].g = nextGen - 1
  /\ ret.kind = "ret" => ~ret.call.stale

C8_Witness ==
  /\ ret.kind = "ret"
  /\ ret.call.op = "execute"
  /\ ret.res.success
  /\ ret.call.spawned = 1
  /\ ret.call.g = 2
  /\ ret.lines # <<>>

\* C9: a command is in flight only on a generation whose handshake has
\* completed.
C9_HandshakeBeforeCommand ==
  \A t \in Callers : pc[t] = "await" => eng[call[t].g].ready

\* C10: every result execute or reset returns has success = false exactly
\* when error is not None.
C10_SuccessIffNoError ==
  (ret.kind = "ret" /\ ret.call.op \in {"execute", "reset"}) =>
    (~ret.res.success <=> ret.res.error.some)

C10_Witness ==
  /\ ret.kind = "ret"
  /\ ret.call.op = "execute"
  /\ ~ret.res.success
  /\ ret.res.error.some
  /\ Contains(ret.res.error.val, <<"Error,">>)

\* ---------------------------------------------------------------- C11
\* C11: when reset returns, its result is {success: true, output: "GAP
\* session reset.", error: null}, the manager's process is a generation that
\* this reset spawned (the newest one), no variable is bound in it whatever
\* earlier execute calls defined, its handshake is done, and the lock is free
\* for the next command.
C11_ResetClearsSession ==
  (ret.kind = "ret" /\ ret.call.op = "reset") =>
    /\ ret.res = ResetResult
    /\ ret.call.spawned = 1
    /\ ret.call.g = nextGen - 1
    /\ proc = ret.call.g
    /\ eng[proc].bound = {}
    /\ eng[proc].ready
    /\ outQ = proc /\ errQ = proc
    /\ lock = 0

\* reset returns after an execute bound myVar in the generation it replaced.
C11_Witness ==
  /\ ret.kind = "ret"
  /\ ret.call.op = "reset"
  /\ \E g \in DOMAIN eng : g # proc /\ "myVar" \in eng[g].bound

\* ---------------------------------------------------------------- C12
\* C12: an execute that finds the process alive when it takes the lock runs
\* on that same generation (no start, no new queues, the session's bindings
\* kept); a successful execute leaves the handle and the generation as they
\* are; a definition whose execute succeeded is bound in the generation it
\* ran on, and a successful lookup on a generation where the variable is
\* bound answers "true".
C12_SessionPersists ==
  [][\A t \in Callers :
       /\ ( /\ pc[t] = "lock" /\ pc'[t] # "lock"
            /\ call[t].op = "execute"
            /\ proc # 0 /\ eng[proc].st # "exited" ) =>
              /\ pc'[t] = "write"
              /\ UNCHANGED <<proc, outQ, errQ, nextGen>>
              /\ eng'[proc].bound = eng[proc].bound
       /\ ( /\ ret'.caller = t /\ ret'.kind = "ret"
            /\ ret'.call.op = "execute"
            /\ ret'.res.success ) =>
              /\ UNCHANGED <<proc, outQ, errQ, nextGen>>
              /\ ret'.call.g = proc
              /\ ret'.call.cmd = CmdDef => "myVar" \in eng'[proc].bound
              /\ (ret'.call.cmd = CmdUse /\ "myVar" \in eng[proc].bound) =>
                    ret'.res.output = <<"true">>
              /\ (ret'.call.cmd = CmdUse /\ "myVar" \notin eng[proc].bound) =>
                    ret'.res.output = <<"false">>]_vars

\* ---------------------------------------------------------------- C13
HasSignature(text) ==
  \E i \in 1..Len(ERROR_PATTERNS) : Contains(text, ERROR_PATTERNS[i])

\* A result of the sentinel path that reports an engine error.
EngineError(r) ==
  /\ r.kind = "ret"
  /\ r.call.op = "execute"
  /\ r.call.ctx # "filter"
  /\ ~r.call.timedOut
  /\ ~r.res.success
  /\ r.res.error # Some(TerminatedMessage)

\* C13: an execute that returns an engine-reported error leaves the process
\* handle, the queues and the generation unchanged, and the execute that
\* follows on that process succeeds with its own output: an execute of a
\* command that prints no error signature, answered by its sentinel on the
\* generation it found, returns success with what the command printed.  (In
\* SpecSession a command runs on a generation that an earlier command left
\* something in only after that command returned an engine-reported error.)
C13_ErrorKeepsSession ==
  [][\A t \in Callers :
       /\ (ret'.caller = t /\ EngineError(ret')) =>
             UNCHANGED <<proc, outQ, errQ, nextGen>>
       /\ ( /\ ret'.caller = t /\ ret'.kind = "ret"
            /\ ret'.call.op = "execute"
            /\ ret'.call.cmd \in {CmdDef, CmdUse}
            /\ ~ret'.call.timedOut
            /\ ret'.res.error # Some(TerminatedMessage) ) =>
              /\ ret'.res.success
              /\ ret'.res.output =
                   Strip(GAPOutputIn(eng[ret'.call.g].bound, ret'.call.cmd))]_vars

\* ---------------------------------------------------------------- C14
\* C14: get_runner constructs at most one manager, the module's _runner
\* never changes once it is set, every get_runner that returns yields that
\* one instance, and a call that finds the instance at its first check goes
\* straight to its return without touching the construction lock.
C14_SingleInstance ==
  [][/\ built' <= 1
     /\ runner # 0 => runner' = runner
     /\ \A t \in Threads :
          /\ got'[t] # got[t] => (got'[t] # 0 /\ got'[t] = runner')
          /\ got'[t] # 0 => got'[t] = runner'
          /\ (gpc[t] = "check" /\ runner # 0 /\ gpc'[t] # "check") =>
                (gpc'[t] = "return" /\ runnerLock' = runnerLock)]_vars

\* A thread that passed the first check while _runner was None holds the
\* lock and finds the instance another thread has constructed and returned.
C14_Witness ==
  \E t, u \in Threads :
    /\ t # u
    /\ gpc[t] = "recheck"
    /\ runner # 0
    /\ got[u] = runner

\* ---------------------------------------------------------------- C15
\* C15: whenever no operation is in progress, the process handle is absent
\* or refers to a process that has not exited.
C15_HandleLiveOrAbsent ==
  (\A t \in Callers : pc[t] = "idle") =>
    (proc = 0 \/ eng[proc].st # "exited")

\* ---------------------------------------------------------------- C16
\* C16: when close returns, in whatever state it was called, the process
\* handle is absent, and the process that was the handle when close was
\* called, if there was a live one, has exited: after the QUIT command or by
\* the kill that follows a wait that timed out.
C16_CloseMakesAbsent ==
  (ret.kind = "ret" /\ ret.call.op = "close") =>
    /\ proc = 0
    /\ ret.call.g # 0 => eng[ret.call.g].st = "exited"

\* close returns after it killed a process that did not answer QUIT.
C16_Witness ==
  /\ ret.kind = "ret"
  /\ ret.call.op = "close"
  /\ ret.call.g # 0
  /\ eng[ret.call.g].st = "exited"
  /\ eng[ret.call.g].stdin = <<>>
  /\ faults > 0
  /\ proc = 0

\* ---------------------------------------------------------------- C17
\* C17: the filter returns None exactly when no pattern of the deny-list is
\* a substring of the command, and otherwise the first pattern, in the order
\* of the list, that is one: a command that execute lets through holds no
\* pattern, and a command it rejects is rejected with the pattern before
\* which no pattern of the list occurs in the command.
C17_FirstPattern ==
  /\ \A t \in Callers :
       call[t].op = "execute" =>
         \A i \in 1..Len(BLOCKED_PATTERNS) :
           ~Contains(call[t].cmd, BLOCKED_PATTERNS[i])
  /\ (ret.kind = "ret" /\ ret.call.op = "execute" /\ ret.call.ctx = "filter") =>
       \E i \in 1..Len(BLOCKED_PATTERNS) :
         /\ Contains(ret.call.cmd, BLOCKED_PATTERNS[i])
         /\ \A j \in 1..(i - 1) : ~Contains(ret.call.cmd, BLOCKED_PATTERNS[j])
         /\ ret.res = BlockedResult(BLOCKED_PATTERNS[i])

\* A command that holds two patterns, the later one of the list first in
\* the text, is rejected with the earlier one of the list.
C17_Witness ==
  /\ ret.kind = "ret"
  /\ ret.call.cmd = <<"Exec", "(", "QUIT">>
  /\ ret.res = BlockedResult(<<"QUIT">>)

\* ---------------------------------------------------------------- C18
\* A step changes the process handle or a queue reference, or writes to the
\* stdin of a process.
Mutates ==
  \/ proc' # proc
  \/ outQ' # outQ
  \/ errQ' # errQ
  \/ \E g \in DOMAIN eng : Len(eng'[g].stdin) > Len(eng[g].stdin)

\* C18: every step of execute, reset or close that changes the process
\* handle or a queue reference, or writes to the subprocess stdin, is taken
\* by the caller that holds the session lock (it holds it before the step, or
\* takes it in the step); so while an execute holds the lock no close changes
\* the handle or writes to stdin.
C18_MutationsUnderLock ==
  [][\A t \in Callers :
       (Steps(t) /\ Mutates) => (lock = t \/ lock' = t)]_vars

\* ---------------------------------------------------------------- C19
\* What a reader leaves in its queue q: whole lines in the order the stream
\* delivered them (the second line of CmdLoop right after the first), and
\* at most one EOF signal, with nothing after it.
ReaderOrder(q) ==
  /\ \A i \in 1..Len(q) : q[i].eof => i = Len(q)
  /\ \A i \in 1..Len(q) :
       ~q[i].eof => (q[i].v # <<>> /\ (q[i].v[Len(q[i].v)] = "\n" \/ i >= Len(q) - 1))
  /\ \A i \in 1..(Len(q) - 1) :
       /\ q[i].v = <<"1", "\n">> => q[i + 1].v = <<"2", "\n">>
       /\ q[i].v = <<"2", "\n">> => q[i + 1].v # <<"1", "\n">>

\* C19: every stdout and stderr queue holds the lines of its stream in the
\* order read, then at most one end-marker, and no line after the
\* end-marker; a reader that has pushed its end-marker has terminated.
C19_ReaderProtocol ==
  /\ \A q \in DOMAIN outStore : ReaderOrder(outStore[q])
  /\ \A q \in DOMAIN errStore : ReaderOrder(errStore[q])
  /\ \A g \in DOMAIN eng :
       /\ (eng[g].outTo \in DOMAIN outStore /\ eng[g].outRd = "run") =>
            \A i \in 1..Len(outStore[eng[g].outTo]) :
              ~outStore[eng[g].outTo][i].eof
       /\ (eng[g].errTo \in DOMAIN errStore /\ eng[g].errRd = "run") =>
            \A i \in 1..Len(errStore[eng[g].errTo]) :
              ~errStore[eng[g].errTo][i].eof

\* A stdout queue holds the two lines of CmdLoop, in order, and then the
\* end-marker of a process that died.
C19_Witness ==
  \E q \in DOMAIN outStore :
    /\ Len(outStore[q]) >= 3
    /\ outStore[q][1].v = <<"1", "\n">>
    /\ outStore[q][2].v = <<"2", "\n">>
    /\ outStore[q][Len(outStore[q])].eof

\* ---------------------------------------------------------------- C20
\* Caller t reads its sentinel in this step, and execute returns.
SentinelReturn(t) ==
  /\ pc[t] = "await"
  /\ ret'.caller = t
  /\ ret'.kind = "ret"
  /\ outStore[outQ] # <<>>
  /\ ~Head(outStore[outQ]).eof

\* The stderr lines a drain takes from queue q: those before the first EOF
\* signal.
Drained(q) == SubSeq(q, 1, DrainEnd(q) - 1)

\* C20: when execute returns on the sentinel path, success is false exactly
\* when an error signature occurs in the stdout text accumulated for the call
\* or in one of the stderr lines drained for it; error is then non-null, and
\* otherwise success is true and error is null.
C20_SuccessIffNoSignature ==
  [][\A t \in Callers :
       SentinelReturn(t) =>
         LET sig == \/ HasSignature(Join(lines[t]))
                    \/ \E i \in 1..Len(Drained(errStore[errQ])) :
                         HasSignature(Drained(errStore[errQ])[i].v)
         IN  /\ ret'.res.success = ~sig
             /\ ret'.res.error.some = sig
             /\ ret'.res.output = Strip(Join(lines[t]))]_vars

\* An execute whose stdout holds no signature fails on the sentinel path
\* because of the stderr line drained for it.
C20_Witness ==
  /\ ret.kind = "ret"
  /\ ret.call.cmd = CmdFail
  /\ ~ret.call.timedOut
  /\ ret.lines = <<>>
  /\ ~ret.res.success
  /\ Contains(ret.res.error.val, <<"boom">>)

\* ---------------------------------------------------------------- C21
\* A result of execute's sentinel path.
OnSentinelPath(r) ==
  /\ r.kind = "ret"
  /\ r.call.op = "execute"
  /\ r.call.ctx # "filter"
  /\ ~r.call.timedOut
  /\ r.res.error # Some(TerminatedMessage)

\* C21 as stated: on the sentinel path output is exactly the stdout lines
\* read before the sentinel line, joined in order.
C21_OutputExactLines ==
  OnSentinelPath(ret) => ret.res.output = Join(ret.lines)

\* C21, amended: each get that does not end the wait appends the line read,
\* without its newline, to the lines of the call; on the sentinel path the
\* line that ends the wait is the sentinel line, no accumulated line is the
\* sentinel line, and output is the accumulated lines joined in order, with
\* the whitespace at both ends of the joined text removed; on the blocked,
\* timeout and termination paths output is empty whatever was accumulated.
C21_OutputIsOwnLines ==
  [][\A t \in Callers :
       /\ (pc[t] = "await" /\ pc'[t] = "await" /\ lines'[t] # lines[t]) =>
             /\ outStore[outQ] # <<>>
             /\ lines'[t] = Append(lines[t], RStripNL(Head(outStore[outQ]).v))
             /\ outStore'[outQ] = Tail(outStore[outQ])
       /\ SentinelReturn(t) =>
             /\ Head(outStore[outQ]).v = SENTINEL \o <<"\n">>
             /\ \A i \in 1..Len(lines[t]) : lines[t][i] # SENTINEL
             /\ ret'.lines = lines[t]
             /\ ret'.res.output = Strip(Join(lines[t]))
       /\ ( /\ ret'.caller = t /\ ret'.kind = "ret"
            /\ ret'.call.op = "execute"
            /\ ~SentinelReturn(t) ) =>
             ret'.res.output = <<>>]_vars

\* An execute returns, on the sentinel path, output that lacks the empty
\* first line it read.
C21_Witness ==
  /\ OnSentinelPath(ret)
  /\ ret.call.cmd = CmdBlank
  /\ ret.lines = << <<>>, <<"4">> >>
  /\ ret.res.output = <<"4">>

\* ---------------------------------------------------------------- C22
\* Caller t writes its command and the sentinel command in this step.
Writes(t) == pc[t] = "write" /\ pc'[t] = "await"

\* Text w is text code without the whitespace at its two ends, followed by
\* one newline.
IsTrimOf(w, code) ==
  \E i \in 1..(Len(code) + 1), j \in 0..Len(code) :
    /\ w = SubSeq(code, i, j) \o <<"\n">>
    /\ \A k \in 1..(i - 1) : code[k] \in Whitespace
    /\ \A k \in (j + 1)..Len(code) : code[k] \in Whitespace
    /\ i <= j => (code[i] \notin Whitespace /\ code[j] \notin Whitespace)

Silent(code) ==
  GAPOutput(Strip(code)) = <<>> /\ GAPErrOutput(Strip(code)) = <<>>

\* C23: an execute of the empty command, or of an accepted command for which
\* GAP prints nothing, that returns on the sentinel path returns success
\* true, the empty output and no error, whatever was executed before it.
C23_SilentCommandSucceeds ==
  (OnSentinelPath(ret) /\ Silent(ret.call.cmd)) =>
     ret.res = Result(TRUE, <<>>, None)

\* ---------------------------------------------------------------- C24
\* C24: the stderr lines GAP writes while it runs a command count for that
\* command's result only.  An execute that returns on the sentinel path
\* reports failure when its own command made GAP write an error signature
\* to stderr before the sentinel, and reports success when its own command
\* made GAP write no error signature at all, whatever the commands before
\* it wrote.
C24_StderrOwnCommand ==
  OnSentinelPath(ret) =>
    LET stmt == Strip(ret.call.cmd)
    IN  /\ HasSignature(GAPErrOutput(stmt)) => ~ret.res.success
        /\ (~HasSignature(GAPErrOutput(stmt)) /\ ~HasSignature(GAPOutput(stmt)))
              => ret.res.success

\* ---------------------------------------------------------------- C25
\* The wait of caller t for its sentinel times out in this step.
TimesOut(t) == pc[t] = "await" /\ ~call[t].timedOut /\ call'[t].timedOut

\* GAP, alive, has run everything written to the stdin of generation g, the
\* sentinel command of the last execute included.
RanAll(g) == eng[g].st = "run" /\ eng[g].stdin = <<>>

\* C25: an execute whose command and sentinel command GAP has run does not
\* time out, whatever text without the sentinel the command printed, also
\* text that does not end with a newline.
C25_SentinelEndsWait ==
  [][\A t \in Callers : TimesOut(t) => ~RanAll(call[t].g)]_vars

\* ---------------------------------------------------------------- C26
\* The call of caller t has ended; it has returned unless GAP stalled or
\* died.
Ended(t) == ret.caller = t /\ (ret.kind = "ret" \/ faults > 0)

\* C26: a caller that is outside execute and reset, or waits for the lock,
\* does not hold the lock, however its last call ended; and every caller
\* that waits for the lock eventually ends its call, by a return when GAP
\* is responsive.
C26_LockReleased ==
  /\ [](\A t \in Callers : pc[t] \in {"idle", "lock"} => lock # t)
  /\ \A t \in Callers : (pc[t] = "lock") ~> Ended(t)

\* A call that held the lock has ended by the exception of a failed restart,
\* the lock is free, and the other caller, which waited for it, can take it.
C26_Witness ==
  \E t \in Callers :
    /\ pc[t] = "lock"
    /\ ret.caller # t
    /\ ret.kind = "raise"
    /\ ret.call.op \in {"execute", "reset"}
    /\ ret.call.spawned > 0
    /\ lock = 0

\* ---------------------------------------------------------------- C27
\* The processes the manager has spawned that have not exited.
Running == {g \in DOMAIN eng : eng[g].st # "exited"}

\* C27: at most one process spawned by the manager is alive at any time,
\* and a process that is alive is the one the handle refers to.
C27_OneProcessAlive ==
  /\ Cardinality(Running) <= 1
  /\ \A g \in Running : proc = g

\* ---------------------------------------------------------------- C28
\* C28: an execute of an accepted command that finds the handle absent,
\* as a close that has returned leaves it, starts a new generation while it
\* holds the lock, writes its command to that generation, still under the
\* lock, once the generation has answered the handshake, and returns on the
\* sentinel path with its own command's output and with no error but one
\* that its own command printed.
C28_CloseThenExecute ==
  [][\A t \in Callers :
       /\ (pc[t] = "lock" /\ call[t].op = "execute" /\ proc = 0 /\ Steps(t))
          => /\ proc' = nextGen
             /\ proc' \notin DOMAIN eng
             /\ eng'[proc'].st = "run"
             /\ ~eng'[proc'].ready
             /\ pc'[t] = "hs"
             /\ lock' = t
       /\ (Writes(t) /\ call[t].spawned > 0)
          => /\ lock = t
             /\ proc = call[t].g
             /\ eng[proc].ready
             /\ eng'[proc].stdin = <<FullCode(call[t].cmd), SENTINEL_CMD>>
       /\ (ret'.caller = t /\ ret'.call.op = "execute"
           /\ ret'.call.spawned > 0)
          => LET stmt == Strip(ret'.call.cmd)
             IN  /\ OnSentinelPath(ret')
                 /\ ret'.call.g = proc
                 /\ ret'.res.output = Strip(GAPOutput(stmt))
                 /\ HasSignature(GAPOutput(stmt)) => ~ret'.res.success
                 /\ ~ret'.res.success =>
                       \/ HasSignature(GAPOutput(stmt))
                       \/ HasSignature(GAPErrOutput(stmt))]_vars

\* After a close has returned, an execute has started generation 2 itself
\* and has returned from it with the result of its own command.
C28_Witness ==
  /\ OnSentinelPath(ret)
  /\ ret.call.cmd = CmdLoop
  /\ ret.call.spawned = 1
  /\ ret.call.g = 2
  /\ proc = 2
  /\ ret.res = Result(TRUE, <<"1", "\n", "2">>, None)

====
